---- MODULE Spec2Model ----
(***************************************************************************)
(* raspi-gpio-mpdc: the persistent MPD client (persistentmpdc.py) and the  *)
(* start-up sequence and input handlers of raspi-gpio-mpdc.py that drive   *)
(* it.  Every network operation of the client (ping, disconnect, connect,  *)
(* the command-list query, the wrapped command) is one step, so the server *)
(* can go away or come back between any two of them.                       *)
(***************************************************************************)
EXTENDS Integers, Sequences, FiniteSets, TLC

\* ---------------------------------------------------------------- bounds
\* largest [MPD] timeout value of the configuration file that is explored
MaxTimeout == 3

\* ------------------------------------------------------------- constants
\* the callback threads of the input devices setupButton and setupRotary
\* register, and the thread of main()
Devices == {"h1", "h2"}
Threads == {"main"} \cup Devices

\* the device whose events are explored against the whole of main()
Handlers == {"h1"}

\* a blacklist that forgot the health check
command_blacklist_empty == << >>

\* self.command_blacklist = ["ping"]
command_blacklist == <<"ping">>

\* the commands mpd.MPDClient implements (hasattr(super(...), cmd))
BaseCmds == {"ping", "play", "pause", "status"}

\* the command lists a server may report to commands()
CmdLists == { <<"play", "pause", "ping">>,
              <<"ping", "status", "newcmd", "play">> }

\* the commands the input handlers issue on self.mpd
HandlerCmds == {"play", "status"}

\* exception classes: mpd.ConnectionError and mpd.CommandError are MPDError,
\* BrokenPipeError is an OSError, socket.error is OSError
OSErrors == {"OSError", "BrokenPipeError"}
ConnectionClass == {"ConnectionError"} \cup OSErrors

SeqToSet(s) == { s[i] : i \in 1..Len(s) }

\* ------------------------------------------------- the transport (mpd.MPDClient)
\* sock: "none" not connected, "live" connected to a listening server,
\*       "dead" a connection the peer has closed
\* a transport whose disconnect complains when there is nothing to close
DisconnectWhenClosed_raises == {"ConnectionError"}

\* disconnect() of a client that holds no connection: the transport's
\* disconnect is idempotent, safe to call when already disconnected (the
\* method is mpd.MPDClient's, taken here from the transport's contract)
DisconnectWhenClosed == {"ok"}

\* self.disconnect(): closing a connection the peer has closed may fail with
\* "connection lost", a broken pipe or another socket error
DisconnectOutcomes(s) ==
    CASE s = "dead" -> {"ok", "ConnectionError", "BrokenPipeError", "OSError"}
      [] s = "none" -> DisconnectWhenClosed
      [] OTHER      -> {"ok"}

\* a broken pipe (or another socket error) leaves the socket in place: connect
\* then answers "Already connected"
SockAfterDisconnect(s, r) ==
    IF r \in {"ok", "ConnectionError"} THEN "none" ELSE s

\* a connect that opens a connection whatever the client still holds
ConnectOutcome_nocheck(s, up) == IF up THEN "ok" ELSE "OSError"

\* self.connect(...): refused by a client that still holds a socket ("Already
\* connected", persistentmpdc.py:101-105), else decided by the server
ConnectOutcome(s, up) ==
    IF s # "none" THEN "ConnectionError"
    ELSE IF up THEN "ok" ELSE "OSError"

SockAfterConnect(s, r) == IF r = "ok" THEN "live" ELSE s

PingOutcomes(s) ==
    CASE s = "live" -> {"ok", "CommandError"}
      [] s = "none" -> {"ConnectionError"}
      [] OTHER      -> {"ConnectionError", "OSError"}

CmdOutcomes(s) ==
    CASE s = "live" -> {"ok", "CommandError"}
      [] s = "none" -> {"ConnectionError"}
      [] OTHER      -> {"ConnectionError", "OSError"}

VARIABLES
    serverUp,               \* the MPD server is listening
    serverCmds,             \* the command list it reports
    sock,                   \* the client's connection
    connection_established, \* PersistentMPDClient.connection_established
    wrapped,                \* setattr(self, cmd, new_func): name -> wrapped super_func
    tableBuilds,            \* number of completed establish_commandlist runs
    command_list,           \* establish_commandlist: what self.commands() returned
    mpdRef,                 \* RaspiGPIOMPDClient.mpd is not None
    isConnected,            \* RaspiGPIOMPDClient.isConnected
    mpd_conn_timeout,       \* RaspiGPIOMPDClient.mpd_conn_timeout
    num_tried,              \* connectMPD's loop counter
    mainPc,                 \* position of main()
    connectResult,          \* what connectMPD returned
    estCalls,               \* establish_connection calls made by connectMPD
    attempts,               \* the finished connectMPD attempts: how many, what
                            \* the last one found, whether those before it
                            \* all found the connection refused
    calm,                   \* since the attempt in progress began on a closed
                            \* connection the server has listened, kept the
                            \* connection and answered main()'s requests
    shutdown,               \* the disconnects of the shutdown: the connection
                            \* each found and how it ended
    pc,                     \* per thread: position inside the client
    inv                     \* per thread: the client operation in progress

vars == <<serverUp, serverCmds, sock, connection_established, wrapped,
          tableBuilds, command_list, calm,
          mpdRef, isConnected, mpd_conn_timeout, num_tried,
          mainPc, connectResult, estCalls, attempts, shutdown, pc, inv>>

envVars == <<serverUp, serverCmds>>
clientVars == <<connection_established, wrapped, tableBuilds, command_list>>
mainVars == <<mpdRef, isConnected, mpd_conn_timeout, num_tried, mainPc,
              connectResult, estCalls, attempts, shutdown>>

\* no client operation in progress
NoInv == [op |-> "none", cmd |-> "none", via |-> FALSE, trace |-> <<>>,
          pingRes |-> "none", discRes |-> <<>>, dcRes |-> "none", cmdRes |-> "none",
          result |-> "none", raisedBy |-> "none", quiet |-> FALSE]

\* quiet: the call began on a connection left behind with the server
\* listening (ServerClosedIt for a wrapped command, QueryHadFailed for an
\* establish_connection), and since then the server has kept listening, kept
\* the new connection and accepted the requests.  The server going away or
\* dropping the connection ends that for every call in progress
Disturbed(f) == [t \in Threads |-> [f[t] EXCEPT !.quiet = FALSE]]

Init ==
    /\ serverUp \in BOOLEAN
    /\ serverCmds \in CmdLists
    /\ sock = "none"
    /\ connection_established = FALSE
    /\ wrapped = [c \in {} |-> c]
    /\ tableBuilds = 0
    /\ command_list = << >>
    /\ calm = FALSE
    /\ mpdRef = FALSE
    /\ isConnected = FALSE
    /\ mpd_conn_timeout \in 0..MaxTimeout
    /\ num_tried = 0
    /\ mainPc = "initMPD"
    /\ connectResult = "none"
    /\ estCalls = 0
    /\ attempts = [n |-> 0, prevRefused |-> TRUE, found |-> "none", calm |-> FALSE]
    /\ shutdown = << >>
    /\ pc = [t \in Threads |-> "idle"]
    /\ inv = [t \in Threads |-> NoInv]

\* ------------------------------------------------------------ the server
ServerStop ==
    /\ serverUp
    /\ serverUp' = FALSE
    /\ sock' = IF sock = "live" THEN "dead" ELSE sock
    /\ calm' = FALSE
    /\ inv' = Disturbed(inv)
    /\ UNCHANGED <<serverCmds, clientVars, mainVars, pc>>

\* a restarted server may report another command list
ServerStart ==
    /\ ~serverUp
    /\ serverUp' = TRUE
    /\ serverCmds' \in CmdLists
    /\ UNCHANGED <<sock, calm, clientVars, mainVars, pc, inv>>

\* the server closes an idle connection (connection timeout)
ConnectionLost ==
    /\ sock = "live"
    /\ sock' = "dead"
    /\ calm' = FALSE
    /\ inv' = Disturbed(inv)
    /\ UNCHANGED <<envVars, clientVars, mainVars, pc>>

\* ------------------------------------------------ PersistentMPDClient
\* try_cmd(cmd_func): the wrapper closes over the base method it forwards to
try_cmd(cmd_func) == [cmd_func |-> cmd_func]

\* WrapLoop without the blacklist test
RECURSIVE WrapLoop_noblacklist(_, _)
WrapLoop_noblacklist(cmds, table) ==
    IF cmds = << >> THEN table
    ELSE LET cmd == Head(cmds)
         IN  WrapLoop_noblacklist(Tail(cmds),
                 IF cmd \in BaseCmds THEN (cmd :> try_cmd(cmd)) @@ table ELSE table)

\* WrapLoop giving up at the first name the base client does not implement
RECURSIVE WrapLoop_stops(_, _)
WrapLoop_stops(cmds, table) ==
    IF cmds = << >> THEN table
    ELSE LET cmd == Head(cmds)
         IN  IF cmd \notin SeqToSet(command_blacklist)
             THEN IF cmd \in BaseCmds
                  THEN WrapLoop_stops(Tail(cmds), (cmd :> try_cmd(cmd)) @@ table)
                  ELSE table
             ELSE WrapLoop_stops(Tail(cmds), table)

\* the loop of establish_commandlist over the reported list
RECURSIVE WrapLoop(_, _)
WrapLoop(cmds, table) ==
    IF cmds = << >> THEN table
    ELSE LET cmd == Head(cmds)
             next == IF cmd \notin SeqToSet(command_blacklist)
                     THEN IF cmd \in BaseCmds
                          THEN (cmd :> try_cmd(cmd)) @@ table
                          ELSE table
                     ELSE table
         IN  WrapLoop(Tail(cmds), next)

\* establish_connection querying the commands after every connect
NeedsCommandlist_always(established) == TRUE

\* establish_connection: "if not self.connection_established"
NeedsCommandlist(established) == ~established

\* func reconnecting whether or not the ping went through
FuncAfterPing_reconnects(r) == IF r = "CommandError" THEN "ret" ELSE "disc1"

\* func catching every exception of the ping, not only the connection class
FuncAfterPing_catchall(r) == IF r = "ok" THEN "cmd" ELSE "disc1"

\* func: where the wrapper goes after self.ping() gave r
FuncAfterPing(r) ==
    CASE r = "ok"              -> "cmd"
      [] r \in ConnectionClass -> "disc1"
      [] OTHER                 -> "ret"

\* func starting over when cmd_func ran into a connection error
FuncAfterCmd_retry(r) == IF r \in ConnectionClass THEN "ping" ELSE "ret"

\* func: "return cmd_func(*pargs, **kwargs)", whatever cmd_func gave
FuncAfterCmd(r) == "ret"

\* the server refusing one of main()'s requests ends the calm
Answered(t, r) == calm /\ (t # "main" \/ r # "CommandError")

\* a do_connect that retries the disconnect after "connection lost" too
AfterDisconnect_retries(r) ==
    CASE r = "ok"              -> "conn"
      [] r = "ConnectionError" -> "disc2"
      [] r = "BrokenPipeError" -> "disc2"
      [] r \in OSErrors        -> "False"
      [] OTHER                 -> "raise"

\* do_connect: after the first self.disconnect() gave r
AfterDisconnect(r) ==
    CASE r = "ok"              -> "conn"
      [] r = "ConnectionError" -> "conn"
      [] r = "BrokenPipeError" -> "disc2"
      [] r \in OSErrors        -> "False"
      [] OTHER                 -> "raise"

\* do_connect: after the retried self.disconnect() ("except Exception: pass")
AfterRetry(r) == "conn"

\* do_connect: after self.connect(...) gave r
AfterConnect(r) ==
    CASE r = "ok"       -> "True"
      [] r \in OSErrors -> "False"
      [] OTHER          -> "raise"

\* a flag that follows the state of the connection
EstablishedAfterConnect_follows(established, how) == established /\ how = "True"

\* do_connect assigns nothing to connection_established, however it ends
EstablishedAfterConnect(established, how) == established

\* the caller of do_connect resumes: func ignores the returned value and lets
\* an exception through, establish_connection returns on False and catches
\* every Exception
Resume(i, how, exc) ==
    IF i.op = "call"
    THEN IF how = "raise"
         THEN [pc |-> "ret",
               inv |-> [i EXCEPT !.dcRes = "raised", !.result = exc,
                                 !.raisedBy = "do_connect"]]
         ELSE [pc |-> "cmd", inv |-> [i EXCEPT !.dcRes = how]]
    ELSE IF how = "raise"
         THEN [pc |-> "ret", inv |-> [i EXCEPT !.dcRes = "raised", !.result = "ok"]]
         ELSE IF how = "True" /\ NeedsCommandlist(connection_established)
              THEN [pc |-> "commands", inv |-> [i EXCEPT !.dcRes = how]]
              ELSE [pc |-> "ret", inv |-> [i EXCEPT !.dcRes = how, !.result = "ok"]]

Log(i, e) == [i EXCEPT !.trace = Append(@, e)]

\* establish_connection() is entered: do_connect(False) starts with disconnect
EstablishInv == [NoInv EXCEPT !.op = "establish", !.trace = <<"do_connect">>]

\* self.mpd.<c>(...): the wrapper if setattr installed one, else the base method
CallInv(c) ==
    IF c \in DOMAIN wrapped
    THEN [NoInv EXCEPT !.op = "call", !.cmd = wrapped[c].cmd_func, !.via = TRUE]
    ELSE [NoInv EXCEPT !.op = "call", !.cmd = c]
CallPc(c) == IF c \in DOMAIN wrapped THEN "ping" ELSE "cmd"

\* func: self.ping()
\* self.ping() is looked up on the instance like every attribute: a wrapped
\* ping would enter func again, and again, until the interpreter gives up
func_ping(t) ==
    /\ pc[t] = "ping"
    /\ IF "ping" \in DOMAIN wrapped
       THEN /\ pc' = [pc EXCEPT ![t] = "ret"]
            /\ inv' = [inv EXCEPT ![t] =
                  [Log(Log(@, "ping"), "ping") EXCEPT !.pingRes = "RecursionError",
                       !.result = "RecursionError", !.raisedBy = "ping"]]
            /\ UNCHANGED calm
       ELSE \E r \in PingOutcomes(sock) :
              LET i == [Log(inv[t], "ping") EXCEPT !.pingRes = r,
                                                   !.quiet = @ /\ r # "CommandError"]
                  n == FuncAfterPing(r)
              IN  /\ pc' = [pc EXCEPT ![t] = n]
                  /\ inv' = [inv EXCEPT ![t] =
                        CASE n = "disc1" -> Log(i, "do_connect")
                          [] n = "ret"   -> [i EXCEPT !.result = r, !.raisedBy = "ping"]
                          [] OTHER       -> i]
                  /\ calm' = Answered(t, r)
    /\ UNCHANGED <<envVars, sock, clientVars, mainVars>>

\* do_connect: the first self.disconnect()
do_connect_disconnect(t) ==
    /\ pc[t] = "disc1"
    /\ \E r \in DisconnectOutcomes(sock) :
         LET i == [Log(inv[t], "disconnect") EXCEPT !.discRes = Append(@, r)]
             n == AfterDisconnect(r)
             k == Resume(Log(inv[t], "disconnect"), n, r)
         IN  /\ sock' = SockAfterDisconnect(sock, r)
             /\ pc' = [pc EXCEPT ![t] = IF n \in {"conn", "disc2"} THEN n ELSE k.pc]
             /\ inv' = [inv EXCEPT ![t] = IF n \in {"conn", "disc2"} THEN i ELSE k.inv]
    /\ UNCHANGED <<envVars, calm, clientVars, mainVars>>

\* do_connect: the retried self.disconnect() after a BrokenPipeError
do_connect_retry(t) ==
    /\ pc[t] = "disc2"
    /\ \E r \in DisconnectOutcomes(sock) :
         /\ sock' = SockAfterDisconnect(sock, r)
         /\ pc' = [pc EXCEPT ![t] = AfterRetry(r)]
         /\ inv' = [inv EXCEPT ![t] =
                   [Log(@, "disconnect") EXCEPT !.discRes = Append(@, r)]]
    /\ UNCHANGED <<envVars, calm, clientVars, mainVars>>

\* do_connect: self.connect(...)
do_connect_connect(t) ==
    /\ pc[t] = "conn"
    /\ LET r == ConnectOutcome(sock, serverUp)
           k == Resume([Log(inv[t], "connect") EXCEPT !.discRes = <<>>],
                       AfterConnect(r), r)
       IN  /\ sock' = SockAfterConnect(sock, r)
           /\ connection_established' =
                  EstablishedAfterConnect(connection_established, AfterConnect(r))
           /\ pc' = [pc EXCEPT ![t] = k.pc]
           /\ inv' = [inv EXCEPT ![t] = k.inv]
    /\ UNCHANGED <<envVars, calm, wrapped, tableBuilds, command_list, mainVars>>

\* establish_commandlist: self.commands(), the wrapping loop and the flag; an
\* exception of the query is caught by establish_connection
establish_commandlist(t) ==
    /\ pc[t] = "commands"
    /\ \E r \in CmdOutcomes(sock) :
         /\ inv' = [inv EXCEPT ![t] = [Log(@, "commands") EXCEPT !.cmdRes = r,
                                        !.result = "ok",
                                        !.quiet = @ /\ r # "CommandError"]]
         /\ calm' = Answered(t, r)
         /\ IF r = "ok"
            THEN /\ command_list' = serverCmds
                 /\ wrapped' = WrapLoop(serverCmds, wrapped)
                 /\ connection_established' = TRUE
                 /\ tableBuilds' = tableBuilds + 1
            ELSE UNCHANGED clientVars
    /\ pc' = [pc EXCEPT ![t] = "ret"]
    /\ UNCHANGED <<envVars, sock, mainVars>>

\* func: return cmd_func(*pargs, **kwargs); also a base method called directly
func_cmd(t) ==
    /\ pc[t] = "cmd"
    /\ \E r \in CmdOutcomes(sock) :
         /\ inv' = [inv EXCEPT ![t] =
                   [Log(@, "cmd") EXCEPT !.cmdRes = r, !.result = r,
                        !.raisedBy = IF r = "ok" THEN "none" ELSE "cmd",
                        !.quiet = @ /\ r # "CommandError"]]
         /\ pc' = [pc EXCEPT ![t] = FuncAfterCmd(r)]
         /\ calm' = Answered(t, r)
    /\ UNCHANGED <<envVars, sock, clientVars, mainVars>>

ClientStep(t) ==
    \/ func_ping(t)
    \/ do_connect_disconnect(t)
    \/ do_connect_retry(t)
    \/ do_connect_connect(t)
    \/ establish_commandlist(t)
    \/ func_cmd(t)

\* ------------------------------------------------ RaspiGPIOMPDClient, main()
Last(s) == s[Len(s)]

\* the loop test off by one
LoopCond_offbyone(connected, tried, timeout) == (~connected) /\ tried <= timeout

\* connectMPD: "while (not self.isConnected) and (num_tried < self.mpd_conn_timeout)"
LoopCond(connected, tried, timeout) == (~connected) /\ tried < timeout

\* connectMPD without its "return True"
AfterStatus_noreturn(r) == "retry"

\* connectMPD: after the status() of the debug line: "return True", or the
\* except clause and the next round of the loop
AfterStatus(r) == IF r = "ok" THEN "True" ELSE "retry"

\* every finished attempt found the connection refused
AllRefused(a) == a.prevRefused /\ a.found \in {"none", "refused"}

\* one more attempt has finished
Attempted(a, tag, c) ==
    [n |-> a.n + 1, prevRefused |-> AllRefused(a), found |-> tag, calm |-> c]

\* what an attempt that did not establish the commands ran into
AttemptTag(i) ==
    IF i.dcRes = "False" /\ Last(i.trace) = "connect" THEN "refused" ELSE "failed"

\* initMPD: self.mpd = PersistentMPDClient(...), whose __init__ calls
\* establish_connection
initMPD_construct ==
    /\ mainPc = "initMPD"
    /\ mainPc' = "ctor"
    /\ pc' = [pc EXCEPT !["main"] = "disc1"]
    /\ inv' = [inv EXCEPT !["main"] = EstablishInv]
    /\ UNCHANGED <<envVars, sock, calm, clientVars, mpdRef, isConnected,
                   mpd_conn_timeout, num_tried, connectResult, estCalls, attempts, shutdown>>

\* initMPD: self.isConnected = self.mpd.connection_established, then the
\* status() of the debug line; when not connected main() enters connectMPD
initMPD_constructed ==
    /\ mainPc = "ctor"
    /\ pc["main"] = "ret"
    /\ mpdRef' = TRUE
    /\ isConnected' = connection_established
    /\ IF connection_established
       THEN /\ mainPc' = "initStatus"
            /\ pc' = [pc EXCEPT !["main"] = CallPc("status")]
            /\ inv' = [inv EXCEPT !["main"] = CallInv("status")]
            /\ UNCHANGED num_tried
       ELSE /\ mainPc' = "loop"
            /\ num_tried' = 0
            /\ pc' = [pc EXCEPT !["main"] = "idle"]
            /\ inv' = [inv EXCEPT !["main"] = NoInv]
    /\ UNCHANGED <<envVars, sock, calm, clientVars, mpd_conn_timeout,
                   connectResult, estCalls, attempts, shutdown>>

\* initMPD: the status() returned (service loop) or raised (sys.exit(-4))
initMPD_status ==
    /\ mainPc = "initStatus"
    /\ pc["main"] = "ret"
    /\ mainPc' = IF inv["main"].result = "ok" THEN "service" ELSE "finally"
    /\ pc' = [pc EXCEPT !["main"] = "idle"]
    /\ inv' = [inv EXCEPT !["main"] = NoInv]
    /\ UNCHANGED <<envVars, sock, calm, clientVars, mpdRef, isConnected,
                   mpd_conn_timeout, num_tried, connectResult, estCalls, attempts, shutdown>>

\* connectMPD: the loop test; the next establish_connection, or return False
\* and main()'s sys.exit(-5)
connectMPD_loop ==
    /\ mainPc = "loop"
    /\ IF LoopCond(isConnected, num_tried, mpd_conn_timeout)
       THEN /\ mainPc' = "loopEst"
            /\ estCalls' = estCalls + 1
            /\ pc' = [pc EXCEPT !["main"] = "disc1"]
            /\ inv' = [inv EXCEPT !["main"] = EstablishInv]
            /\ calm' = (serverUp /\ sock = "none")
            /\ UNCHANGED connectResult
       ELSE /\ mainPc' = "finally"
            /\ connectResult' = "False"
            /\ UNCHANGED <<estCalls, calm, pc, inv, shutdown>>
    /\ UNCHANGED <<envVars, sock, clientVars, mpdRef, isConnected,
                   mpd_conn_timeout, num_tried, attempts, shutdown>>

\* connectMPD: establish_connection returned; isConnected is read and, when
\* set, status() is called for the debug line
connectMPD_established ==
    /\ mainPc = "loopEst"
    /\ pc["main"] = "ret"
    /\ isConnected' = connection_established
    /\ IF connection_established
       THEN /\ mainPc' = "loopStatus"
            /\ pc' = [pc EXCEPT !["main"] = CallPc("status")]
            /\ inv' = [inv EXCEPT !["main"] = CallInv("status")]
            /\ UNCHANGED <<num_tried, attempts, calm>>
       ELSE /\ mainPc' = "loop"
            /\ num_tried' = num_tried + 1
            /\ attempts' = Attempted(attempts, AttemptTag(inv["main"]), calm)
            /\ calm' = FALSE
            /\ pc' = [pc EXCEPT !["main"] = "idle"]
            /\ inv' = [inv EXCEPT !["main"] = NoInv]
    /\ UNCHANGED <<envVars, sock, clientVars, mpdRef, mpd_conn_timeout,
                   connectResult, estCalls, shutdown>>

\* connectMPD: the status() returned (return True) or raised ("except
\* Exception: pass", num_tried += 1, sleep, loop test)
connectMPD_status ==
    /\ mainPc = "loopStatus"
    /\ pc["main"] = "ret"
    /\ IF AfterStatus(inv["main"].result) = "True"
       THEN /\ mainPc' = "service"
            /\ connectResult' = "True"
            /\ UNCHANGED num_tried
       ELSE /\ mainPc' = "loop"
            /\ num_tried' = num_tried + 1
            /\ UNCHANGED connectResult
    /\ attempts' = Attempted(attempts,
                              IF inv["main"].result = "ok" THEN "established"
                                                           ELSE "statusfailed",
                              calm)
    /\ calm' = FALSE
    /\ pc' = [pc EXCEPT !["main"] = "idle"]
    /\ inv' = [inv EXCEPT !["main"] = NoInv]
    /\ UNCHANGED <<envVars, sock, clientVars, mpdRef, isConnected,
                   mpd_conn_timeout, estCalls, shutdown>>

\* sigterm_handler: SIGTERM makes the main thread raise SystemExit wherever it
\* is; no "except Exception" on the way catches it, so an assignment that was
\* still to come (self.mpd, self.isConnected) does not happen
sigterm ==
    /\ mainPc \notin {"finally", "atexit", "exited"}
    /\ mainPc' = "finally"
    /\ calm' = FALSE
    /\ pc' = [pc EXCEPT !["main"] = "idle"]
    /\ inv' = [inv EXCEPT !["main"] = NoInv]
    /\ UNCHANGED <<envVars, sock, clientVars, mpdRef, isConnected, mpd_conn_timeout,
                   num_tried, connectResult, estCalls, attempts, shutdown>>

\* main(): the finally block: "if mpdclient and mpdclient.isConnected:
\* mpdclient.mpd.disconnect()"
main_finally ==
    /\ mainPc = "finally"
    /\ mainPc' = "atexit"
    /\ IF isConnected
       THEN \E r \in DisconnectOutcomes(sock) :
              /\ sock' = SockAfterDisconnect(sock, r)
              /\ shutdown' = Append(shutdown, [held |-> sock, r |-> r])
       ELSE UNCHANGED <<sock, shutdown>>
    /\ UNCHANGED <<envVars, calm, clientVars, mpdRef, isConnected, mpd_conn_timeout,
                   num_tried, connectResult, estCalls, attempts, pc, inv>>

\* finalize, run by weakref.finalize when the interpreter exits: "if self.mpd
\* is not None: self.mpd.disconnect()"
finalize ==
    /\ mainPc = "atexit"
    /\ mainPc' = "exited"
    /\ IF mpdRef
       THEN \E r \in DisconnectOutcomes(sock) :
              /\ sock' = SockAfterDisconnect(sock, r)
              /\ shutdown' = Append(shutdown, [held |-> sock, r |-> r])
       ELSE UNCHANGED <<sock, shutdown>>
    /\ UNCHANGED <<envVars, calm, clientVars, mpdRef, isConnected, mpd_conn_timeout,
                   num_tried, connectResult, estCalls, attempts, pc, inv>>

\* the connection of the established client was closed by the server, which
\* is listening again, and nobody else is using the client
ServerClosedIt(t, c) ==
    /\ connection_established
    /\ c \in DOMAIN wrapped
    /\ sock = "dead"
    /\ serverUp
    /\ mainPc \in {"service", "client"}
    /\ \A u \in Threads \ {t} : pc[u] = "idle"

\* an input device fires: the handler calls self.mpd.<c>(...); before initMPD
\* has assigned self.mpd the attribute lookup on None raises
handler_call(t, c) ==
    /\ pc[t] = "idle"
    /\ IF mpdRef
       THEN /\ pc' = [pc EXCEPT ![t] = CallPc(c)]
            /\ inv' = [inv EXCEPT ![t] = [CallInv(c) EXCEPT !.quiet = ServerClosedIt(t, c)]]
       ELSE /\ pc' = [pc EXCEPT ![t] = "ret"]
            /\ inv' = [inv EXCEPT ![t] = [NoInv EXCEPT !.op = "call", !.cmd = c,
                              !.result = "AttributeError", !.raisedBy = "handler"]]
    /\ UNCHANGED <<envVars, sock, calm, clientVars, mainVars>>

handler_return(t) ==
    /\ pc[t] = "ret"
    /\ pc' = [pc EXCEPT ![t] = "idle"]
    /\ inv' = [inv EXCEPT ![t] = NoInv]
    /\ UNCHANGED <<envVars, sock, calm, clientVars, mainVars>>

MainStep ==
    \/ initMPD_construct
    \/ initMPD_constructed
    \/ initMPD_status
    \/ connectMPD_loop
    \/ connectMPD_established
    \/ connectMPD_status
    \/ sigterm
    \/ main_finally
    \/ finalize
    \/ ClientStep("main")

HandlerStep(t) ==
    /\ mainPc # "exited"
    /\ \/ \E c \in HandlerCmds : handler_call(t, c)
       \/ handler_return(t)
       \/ ClientStep(t)

Next ==
    \/ ServerStop
    \/ ServerStart
    \/ ConnectionLost
    \/ MainStep
    \/ \E t \in Handlers : HandlerStep(t)

Spec == Init /\ [][Next]_vars

\* ------------------------------------- the client under an arbitrary caller
\* the commands a caller of the client may issue, the health check included
ApiCmds == HandlerCmds \cup {"ping"}

\* PersistentMPDClient(...) returned to its caller
client_constructed ==
    /\ mainPc = "ctor"
    /\ pc["main"] = "ret"
    /\ mainPc' = "client"
    /\ mpdRef' = TRUE
    /\ pc' = [pc EXCEPT !["main"] = "idle"]
    /\ inv' = [inv EXCEPT !["main"] = NoInv]
    /\ UNCHANGED <<envVars, sock, calm, clientVars, isConnected, mpd_conn_timeout,
                   num_tried, connectResult, estCalls, attempts, shutdown>>

\* an earlier establish_connection connected but its command-list query
\* failed: the client holds a connection without established commands; the
\* server is listening and nobody else is using the client
QueryHadFailed(t) ==
    /\ ~connection_established
    /\ sock # "none"
    /\ serverUp
    /\ \A u \in Threads \ {t} : pc[u] = "idle"

\* a caller invokes establish_connection() on the constructed client
api_establish(t) ==
    /\ pc[t] = "idle"
    /\ mpdRef
    /\ pc' = [pc EXCEPT ![t] = "disc1"]
    /\ inv' = [inv EXCEPT ![t] = [EstablishInv EXCEPT !.quiet = QueryHadFailed(t)]]
    /\ UNCHANGED <<envVars, sock, calm, clientVars, mainVars>>

ClientNext ==
    \/ ServerStop
    \/ ServerStart
    \/ ConnectionLost
    \/ initMPD_construct
    \/ client_constructed
    \/ ClientStep("main")
    \/ \E t \in Handlers :
         \/ api_establish(t)
         \/ \E c \in ApiCmds : handler_call(t, c)
         \/ handler_return(t)
         \/ ClientStep(t)

ClientSpec == Init /\ [][ClientNext]_vars

\* ------------------------------------ two input devices in the service loop
\* main() has reached "while True: time.sleep(0.1)" after a constructor that
\* found the server and established the commands
ServiceInit ==
    /\ serverUp = TRUE
    /\ serverCmds \in CmdLists
    /\ sock = "live"
    /\ connection_established = TRUE
    /\ command_list = serverCmds
    /\ wrapped = WrapLoop(serverCmds, [c \in {} |-> c])
    /\ tableBuilds = 1
    /\ calm = FALSE
    /\ mpdRef = TRUE
    /\ isConnected = TRUE
    /\ mpd_conn_timeout \in 0..MaxTimeout
    /\ num_tried = 0
    /\ mainPc = "service"
    /\ connectResult = "none"
    /\ estCalls = 0
    /\ attempts = [n |-> 0, prevRefused |-> TRUE, found |-> "none", calm |-> FALSE]
    /\ shutdown = << >>
    /\ pc = [t \in Threads |-> "idle"]
    /\ inv = [t \in Threads |-> NoInv]

ServiceNext ==
    \/ ServerStop
    \/ ServerStart
    \/ ConnectionLost
    \/ \E t \in Devices : HandlerStep(t)

ServiceSpec == ServiceInit /\ [][ServiceNext]_vars

\* ------------------------------------------------------------ properties
Count(s, e) == Cardinality({ j \in 1..Len(s) : s[j] = e })

\* thread t is inside, or has just left, a wrapper built by try_cmd
Wrapper(t) == inv[t].op = "call" /\ inv[t].via
Returned(t) == pc[t] = "ret"

\* C1: a wrapper whose ping raised mpd.ConnectionError or OSError has, when it
\* returns, made exactly one do_connect call and after it exactly one call of
\* the underlying command, whatever do_connect ran into.
C1_ReconnectThenCallOnce ==
    \A t \in Threads :
        (Returned(t) /\ Wrapper(t) /\ inv[t].pingRes \in ConnectionClass)
        => /\ Count(inv[t].trace, "do_connect") = 1
           /\ Count(inv[t].trace, "cmd") = 1
           /\ Last(inv[t].trace) = "cmd"

\* C2: a wrapper whose ping succeeded has, when it returns, made exactly one
\* ping, no do_connect (no disconnect, no connect) and exactly one call of the
\* underlying command.
C2_HealthyCall ==
    \A t \in Threads :
        (Returned(t) /\ Wrapper(t) /\ inv[t].pingRes = "ok")
        => inv[t].trace = <<"ping", "cmd">>

C2_Witness ==
    \E t \in Handlers :
        /\ Returned(t) /\ Wrapper(t)
        /\ inv[t].pingRes = "ok" /\ inv[t].result = "ok"

\* C3: when do_connect failed inside a wrapper (returned False or raised), the
\* caller of the wrapper sees no error but one raised by the underlying command.
C3_ReconnectFailureNotThrown ==
    \A t \in Threads :
        (Returned(t) /\ Wrapper(t) /\ inv[t].dcRes \in {"False", "raised"})
        => inv[t].raisedBy \in {"none", "cmd"}

\* C4: once the underlying command of a wrapper has raised, the wrapper has
\* returned with exactly that error; the command was called once, it is the
\* last thing the wrapper did, and there was one ping and at most one reconnect.
C4_CommandErrorPropagates ==
    \A t \in Threads :
        (Wrapper(t) /\ inv[t].cmdRes \notin {"none", "ok"})
        => /\ Returned(t)
           /\ inv[t].result = inv[t].cmdRes
           /\ inv[t].raisedBy = "cmd"
           /\ Count(inv[t].trace, "cmd") = 1
           /\ Last(inv[t].trace) = "cmd"
           /\ Count(inv[t].trace, "ping") = 1
           /\ Count(inv[t].trace, "do_connect") <= 1

C4_Witness ==
    \E t \in Handlers :
        /\ Returned(t) /\ Wrapper(t)
        /\ inv[t].pingRes = "ok"
        /\ inv[t].cmdRes \in ConnectionClass
        /\ inv[t].result = inv[t].cmdRes

\* C5: connectMPD returns True exactly when connection_established is true on
\* its return.
C5_TrueIffEstablished ==
    connectResult # "none"
    => ((connectResult = "True") <=> connection_established)

\* C6: when every attempt found the connection refused, connectMPD returns
\* False after exactly mpd_conn_timeout calls of establish_connection; the loop
\* is bounded: it never makes more than mpd_conn_timeout attempts and every
\* attempt that sends it back to the loop test adds one to num_tried.
C6_UnreachableTimesOut ==
    /\ [](/\ estCalls <= mpd_conn_timeout
          /\ num_tried <= mpd_conn_timeout
          /\ (connectResult # "none" /\ AllRefused(attempts))
             => /\ connectResult = "False"
                /\ estCalls = mpd_conn_timeout
                /\ attempts.n = mpd_conn_timeout
                /\ num_tried = mpd_conn_timeout)
    /\ [][(mainPc \in {"loopEst", "loopStatus"} /\ mainPc' = "loop")
          => num_tried' = num_tried + 1]_vars

C6_Witness ==
    /\ connectResult = "False"
    /\ mpd_conn_timeout = MaxTimeout
    /\ estCalls = MaxTimeout
    /\ attempts.found = "refused"
    /\ AllRefused(attempts)

C8_TableNeverRebuilt ==
    [][connection_established
       => (wrapped' = wrapped /\ tableBuilds' = tableBuilds)]_vars

C8_Witness ==
    /\ connection_established
    /\ tableBuilds = 1
    /\ serverCmds # command_list
    /\ \E t \in Handlers :
         /\ Returned(t)
         /\ inv[t].op = "establish"
         /\ inv[t].dcRes = "True"
         /\ Last(inv[t].trace) = "connect"

\* C9: once establish_commandlist has completed, the wrapped names are exactly
\* the reported names that are not blacklisted and that the base client
\* implements, each wrapping its own base method; a server reporting play,
\* pause, ping yields exactly play and pause.
C9_WrappedIsReportedMinusBlacklist ==
    connection_established
    => /\ DOMAIN wrapped = { c \in SeqToSet(command_list) :
                               c \in BaseCmds /\ c # "ping" }
       /\ \A c \in DOMAIN wrapped : wrapped[c].cmd_func = c
       /\ (command_list = <<"play", "pause", "ping">>
           => DOMAIN wrapped = {"play", "pause"})

C9_Witness ==
    /\ connection_established
    /\ command_list = <<"play", "pause", "ping">>
    /\ DOMAIN wrapped = {"play", "pause"}

\* C10: ping is never among the wrapped commands; no invocation pings twice or
\* runs into a recursion, and a ping invoked by a caller goes straight to the
\* base method, without ping or do_connect before it.
C10_PingNeverWrapped ==
    /\ "ping" \notin DOMAIN wrapped
    /\ \A t \in Threads :
         /\ Count(inv[t].trace, "ping") <= 1
         /\ inv[t].result # "RecursionError"
         /\ inv[t].cmd = "ping"
            => (~inv[t].via /\ inv[t].trace \in {<< >>, <<"cmd">>})

C10_Witness ==
    /\ connection_established
    /\ \E t \in Handlers :
         /\ Returned(t)
         /\ inv[t].cmd = "ping"
         /\ inv[t].trace = <<"cmd">>

\* a step of thread t that is the self.connect(...) of do_connect
ConnectStep(t) ==
    /\ pc[t] = "conn"
    /\ inv'[t].trace = Append(inv[t].trace, "connect")

C12_FailureOnlyWhenRefused ==
    \A t \in Threads :
        inv[t].dcRes = "False" => Count(inv[t].trace, "connect") = 1

\* thread t is inside a sequence on the client: the health check, do_connect,
\* the command-list query or the underlying command
InClient(t) == pc[t] \in {"ping", "disc1", "disc2", "conn", "commands", "cmd"}

\* C13 as stated: at most one ping / do_connect / underlying-command sequence
\* is in progress on the client at any time, also when two input devices fire
\* close together
C13_OneSequenceAtATime ==
    Cardinality({t \in Threads : InClient(t)}) <= 1

\* main() is in initMPD or connectMPD: the start-up wait has not finished
StartingUp == mainPc \in {"initMPD", "ctor", "initStatus", "loop", "loopEst", "loopStatus"}

\* C14 as stated: no handler issues a command on the client, or dereferences
\* it, before initMPD/connectMPD have finished: while main() is starting up
\* every device thread is idle
C14_HandlersWaitForStartup ==
    StartingUp => \A t \in Devices : pc[t] = "idle"

\* C15: once isConnected is set, isConnected and connection_established stay
\* true in every later state, whatever happens to the connection
C15_EstablishedForGood ==
    /\ [](isConnected => connection_established)
    /\ [][isConnected => (isConnected' /\ connection_established')]_vars

\* C15 witness: after isConnected was set a handler's reconnect was refused,
\* and both flags are still set
C15_Witness ==
    /\ isConnected
    /\ connection_established
    /\ \E t \in Handlers :
          Returned(t) /\ Wrapper(t) /\ inv[t].dcRes = "False" /\ sock # "live"

\* C16 as stated: on every exit path of main() a live connection the client
\* holds is closed before the process ends
C16_ClosedAtExit ==
    mainPc = "exited" => sock # "live"

\* C17: a disconnect issued when the client is already disconnected never
\* raises and leaves it disconnected: the disconnect that opens a do_connect
\* on a client without a connection goes straight on to connect, and a
\* shutdown disconnect (the finally block, then the finalizer) that finds no
\* connection returns normally
C17_DisconnectIdempotent ==
    /\ [](\A i \in 1..Len(shutdown) :
             shutdown[i].held = "none" => shutdown[i].r = "ok")
    /\ [][\A t \in Threads :
             (/\ pc[t] = "disc1"
              /\ sock = "none"
              /\ inv'[t].trace = Append(inv[t].trace, "disconnect"))
             => (pc'[t] = "conn" /\ inv'[t].discRes = <<"ok">> /\ sock' = "none")]_vars

\* C17 witness: the process has ended after both shutdown disconnects; the
\* finally block closed the live connection and the finalizer found none
C17_Witness ==
    /\ mainPc = "exited"
    /\ shutdown = << [held |-> "live", r |-> "ok"], [held |-> "none", r |-> "ok"] >>

\* C18 as stated (Scenario C): the established connection was closed by the
\* server, which is reachable again; the next wrapped command finds its ping
\* failing with a connection-class error, reconnects successfully, and the
\* command is issued exactly once, on the new connection, and succeeds
C18_ScenarioC ==
    \A t \in Devices :
        (Returned(t) /\ Wrapper(t) /\ inv[t].quiet) =>
            /\ inv[t].pingRes \in ConnectionClass
            /\ inv[t].dcRes = "True"
            /\ Count(inv[t].trace, "cmd") = 1
            /\ inv[t].result = "ok"
            /\ sock = "live"

\* the reported names the base client does not implement
Unknown(cmds) == { c \in SeqToSet(cmds) : c \notin BaseCmds }

\* C19: a reported name without a base implementation is skipped and is not
\* an error: the establish_commandlist that met it has set
\* connection_established and ended normally, the name itself is not wrapped,
\* and every other reported name that is implemented and not blacklisted is
\* wrapped, those reported after the unknown one included
C19_UnknownNameSkipped ==
    /\ \A t \in Threads :
          (inv[t].op = "establish" /\ inv[t].cmdRes = "ok")
          => (connection_established /\ inv[t].result = "ok")
    /\ (connection_established /\ Unknown(command_list) # {})
       => /\ Unknown(command_list) \cap DOMAIN wrapped = {}
          /\ \A c \in SeqToSet(command_list) \ Unknown(command_list) :
                c \notin SeqToSet(command_blacklist) => c \in DOMAIN wrapped

\* C19 witness: the server reported newcmd between status and play; both are
\* wrapped and the commands are established
C19_Witness ==
    /\ connection_established
    /\ command_list = <<"ping", "status", "newcmd", "play">>
    /\ DOMAIN wrapped = {"status", "play"}
    /\ \E t \in Threads : inv[t].op = "establish" /\ inv[t].cmdRes = "ok"

\* C20: within one do_connect the disconnect is attempted at most twice: once
\* always, the second time only when the first failed with a broken pipe. A
\* "connection lost" of the first disconnect and any failure of the retried
\* one are ignored: the next thing do_connect does is the connect
C20_AtMostTwoDisconnects ==
    /\ [](\A t \in Threads :
            LET i == inv[t]
            IN  /\ Count(i.trace, "disconnect") <= 2
                /\ (\/ pc[t] \in {"disc2", "conn"}
                    \/ i.dcRes # "none"
                    \/ Count(i.trace, "connect") > 0)
                   => Count(i.trace, "disconnect") >= 1
                /\ pc[t] = "disc2" => i.discRes = <<"BrokenPipeError">>
                /\ Len(i.discRes) = 2 => i.discRes[1] = "BrokenPipeError"
                /\ (i.discRes # << >> /\ (i.discRes[1] = "ConnectionError"
                                          \/ Len(i.discRes) = 2))
                   => pc[t] = "conn")
    /\ [][\A t \in Threads :
            /\ (/\ Count(inv[t].trace, "disconnect") = 1
                /\ Count(inv'[t].trace, "disconnect") = 2)
               => inv[t].discRes = <<"BrokenPipeError">>
            /\ (pc[t] = "conn" /\ pc'[t] # "conn")
               => (ConnectStep(t) \/ (t = "main" /\ mainPc' = "finally"))]_vars

\* C20 witness: the first disconnect failed with a broken pipe, the retried
\* one failed as well, and do_connect is about to connect
C20_Witness ==
    \E t \in Threads :
        /\ pc[t] = "conn"
        /\ Len(inv[t].discRes) = 2
        /\ inv[t].discRes[2] \notin {"ok"}

\* C21: when the ping of a wrapper fails with an error that is neither
\* mpd.ConnectionError nor an OSError, the wrapper has returned at once: no
\* do_connect, no call of the underlying command, and the caller gets the
\* ping's error
C21_PingErrorPropagates ==
    \A t \in Threads :
        (Wrapper(t) /\ inv[t].pingRes \notin ConnectionClass \cup {"none", "ok"})
        => /\ Returned(t)
           /\ inv[t].trace = <<"ping">>
           /\ inv[t].dcRes = "none"
           /\ inv[t].cmdRes = "none"
           /\ inv[t].result = inv[t].pingRes
           /\ inv[t].raisedBy = "ping"

\* C21 witness: a wrapper whose ping the server answered with a command error
\* has returned that error
C21_Witness ==
    \E t \in Devices :
        /\ Wrapper(t)
        /\ Returned(t)
        /\ inv[t].pingRes = "CommandError"
        /\ inv[t].result = "CommandError"

\* C22 as stated: when establish_connection has connected but the
\* command-list query failed, the error is swallowed, connection_established
\* stays false and nothing is wrapped; and a later establish_connection, made
\* while the server is reachable, tears the connection down, reconnects and
\* queries the command list again
C22_QueryFailureThenRetry ==
    /\ ~connection_established => DOMAIN wrapped = {}
    /\ \A t \in Threads :
         inv[t].op = "establish" =>
            /\ inv[t].cmdRes \notin {"none", "ok"}
               => /\ Returned(t)
                  /\ inv[t].result = "ok"
                  /\ ~connection_established
            /\ (Returned(t) /\ inv[t].quiet)
               => /\ Count(inv[t].trace, "disconnect") >= 1
                  /\ Count(inv[t].trace, "connect") = 1
                  /\ inv[t].dcRes = "True"
                  /\ Count(inv[t].trace, "commands") = 1
                  /\ connection_established

====
